---- MODULE Spec2Model ----
(***************************************************************************)
(* Model of to-do-app/script.js: a to-do list whose only state is the      *)
(* rendered <li> rows of #taskList, the value of #taskInput and the        *)
(* localStorage entry "tasks".                                             *)
(*                                                                         *)
(* A JavaScript string is a sequence of UTF-16 code units (naturals).      *)
(***************************************************************************)
EXTENDS Integers, Sequences, FiniteSets

VARIABLES
  taskInput,  \* the value of #taskInput
  taskList,   \* the <li> children of #taskList, in document order
  storage,    \* localStorage.getItem("tasks"): null or a string
  ev,         \* the last event handled, and the kind and row of the one before
  pre,        \* taskList as it was before the last event
  writes,     \* the values the last event's listeners passed to setItem
  detached,   \* the <li> the last event removed from the document, if any
  threw,      \* whether the last event's listener ended in an exception
  ready,      \* whether DOMContentLoaded has been fired at this document
  codec       \* a run of the codec on a task list: input, encoding, decoding

vars ==
  <<taskInput, taskList, storage, ev, pre, writes, detached, threw, ready,
    codec>>

----------------------------------------------------------------------------
(* Bounds of the model *)

\* most rows the view may hold; the add handler is not offered beyond it
MaxRows == 2

----------------------------------------------------------------------------
(* Code units and string literals of the source *)

QUOTE == 34
BACKSLASH == 92
\* U+2715, the label of the delete button
CrossMark == <<10005>>

S_text == <<116, 101, 120, 116>>
S_completed == <<99, 111, 109, 112, 108, 101, 116, 101, 100>>
S_true == <<116, 114, 117, 101>>
S_false == <<102, 97, 108, 115, 101>>
S_null == <<110, 117, 108, 108>>
S_undefined == <<117, 110, 100, 101, 102, 105, 110, 101, 100>>
S_objectObject == <<91, 111, 98, 106, 101, 99, 116, 32, 79, 98, 106, 101, 99, 116, 93>>
S_Enter == <<69, 110, 116, 101, 114>>
S_toString == <<116, 111, 83, 116, 114, 105, 110, 103>>

\* WhiteSpace and LineTerminator code units removed by String.prototype.trim
TrimSet ==
  {9, 10, 11, 12, 13, 32, 160, 5760, 8232, 8233, 8239, 8287, 12288, 65279}
    \cup (8192 .. 8202)

IsBlank(s) == \A i \in 1 .. Len(s) : s[i] \in TrimSet

RECURSIVE TrimStart(_)
TrimStart(s) ==
  IF s # <<>> /\ Head(s) \in TrimSet THEN TrimStart(Tail(s)) ELSE s

RECURSIVE TrimEnd(_)
TrimEnd(s) ==
  IF s # <<>> /\ s[Len(s)] \in TrimSet
    THEN TrimEnd(SubSeq(s, 1, Len(s) - 1))
    ELSE s

\* a trim that removes U+0020 only
RECURSIVE Trim_spacesOnly(_)
Trim_spacesOnly(s) ==
  IF s # <<>> /\ Head(s) = 32 THEN Trim_spacesOnly(Tail(s))
  ELSE IF s # <<>> /\ s[Len(s)] = 32
    THEN Trim_spacesOnly(SubSeq(s, 1, Len(s) - 1))
  ELSE s

\* String.prototype.trim
Trim(s) == TrimEnd(TrimStart(s))

----------------------------------------------------------------------------
(* JavaScript values, as far as JSON.parse can produce them *)

Undefined == [t |-> "undefined"]
Null == [t |-> "null"]
Bool(b) == [t |-> "bool", b |-> b]
Str(s) == [t |-> "str", s |-> s]
Arr(a) == [t |-> "arr", a |-> a]
\* an object is its list of [k, v] members in source order
Obj(p) == [t |-> "obj", p |-> p]

\* The Number type is IEEE 754 binary64.  A finite Number is
\* (-1)^neg * m * 2^q: the significand m is a natural number below 2^53,
\* written in decimal digits, least significant first (<<>> is zero); it
\* is 2^52 or more for a normal number, and less for a subnormal one, whose
\* q is MinExponent.
MantissaBits == 53
MinExponent == -1074
MaxExponent == 971

Num(neg, m, q) == [t |-> "num", neg |-> neg, inf |-> FALSE, m |-> m, q |-> q]
Zero(neg) == Num(neg, <<>>, 0)
Infinity(neg) == [t |-> "num", neg |-> neg, inf |-> TRUE, m |-> <<>>, q |-> 0]

\* ToBoolean: false for undefined, null, false, "", +0 and -0 (JSON.parse
\* never yields NaN)
Truthy(v) ==
  CASE v.t = "undefined" -> FALSE
    [] v.t = "null" -> FALSE
    [] v.t = "bool" -> v.b
    [] v.t = "str" -> v.s # <<>>
    [] v.t = "num" -> v.inf \/ v.m # <<>>
    [] OTHER -> TRUE

----------------------------------------------------------------------------
(* Natural numbers of any size, for the exact arithmetic of the decimal    *)
(* to binary64 and binary64 to decimal conversions: a sequence of decimal  *)
(* digits 0..9, least significant first, without leading zeros; <<>> is 0. *)

Max(x, y) == IF x < y THEN y ELSE x

BigDigit(a, i) == IF i <= Len(a) THEN a[i] ELSE 0

\* a without its leading zeros, d of them
BigTrim(a) ==
  SubSeq(a, 1, Len(a) - CHOOSE d \in 0 .. Len(a) :
                          /\ d = Len(a) \/ a[Len(a) - d] # 0
                          /\ \A e \in 0 .. d - 1 : a[Len(a) - e] = 0)

\* how many digits a and b of one length have in common at the top
CommonTop(a, b) ==
  CHOOSE d \in 0 .. Len(a) :
    /\ d = Len(a) \/ a[Len(a) - d] # b[Len(a) - d]
    /\ \A e \in 0 .. d - 1 : a[Len(a) - e] = b[Len(a) - e]

\* a < b: fewer digits, or the smaller digit where they first differ
BigLess(a, b) ==
  IF Len(a) # Len(b) THEN Len(a) < Len(b)
  ELSE /\ CommonTop(a, b) < Len(a)
       /\ a[Len(a) - CommonTop(a, b)] < b[Len(a) - CommonTop(a, b)]

\* a * 10^k
BigShift(a, k) == IF a = <<>> THEN <<>> ELSE [i \in 1 .. k |-> 0] \o a

\* the digits of a natural number below 10^10
BigOfNat(n) == BigTrim(<<>> \o [i \in 1 .. 10 |-> (n \div 10^(i - 1)) % 10])

\* the sum of the digits j of a and b; nothing below the first digit
DigitSum(a, b, j) == IF j = 0 THEN 0 ELSE BigDigit(a, j) + BigDigit(b, j)

\* how far below digit i of a + b the nearest digit lies whose sum is not
\* 9, the sums between passing a carry on
CarryDistance(a, b, i) ==
  CHOOSE d \in 1 .. i :
    /\ d = i \/ DigitSum(a, b, i - d) # 9
    /\ \A e \in 1 .. d - 1 : DigitSum(a, b, i - e) = 9

\* a + b: a carry enters digit i when that digit below produces one
BigAdd(a, b) ==
  BigTrim(<<>> \o
    [i \in 1 .. Max(Len(a), Len(b)) + 1 |->
       (BigDigit(a, i) + BigDigit(b, i)
          + IF DigitSum(a, b, i - CarryDistance(a, b, i)) >= 10
              THEN 1 ELSE 0) % 10])

\* digit j of a less digit j of b; nothing below the first digit
DigitDifference(a, b, j) == IF j = 0 THEN 0 ELSE a[j] - BigDigit(b, j)

\* how far below digit i of a - b the nearest digit lies where a and b
\* differ, the equal digits between passing a borrow on
BorrowDistance(a, b, i) ==
  CHOOSE d \in 1 .. i :
    /\ d = i \/ DigitDifference(a, b, i - d) # 0
    /\ \A e \in 1 .. d - 1 : DigitDifference(a, b, i - e) = 0

\* a - b, for a >= b: a borrow leaves digit i when that digit below needs
\* one
BigSub(a, b) ==
  BigTrim(<<>> \o
    [i \in 1 .. Len(a) |->
       (a[i] - BigDigit(b, i) + 10
          - IF DigitDifference(a, b, i - BorrowDistance(a, b, i)) < 0
              THEN 1 ELSE 0) % 10])

\* the sum of a[j] * b[i + 1 - j] for j in lo .. hi
RECURSIVE SumProducts(_, _, _, _, _)
SumProducts(a, b, i, lo, hi) ==
  IF lo > hi THEN 0
  ELSE IF lo = hi THEN a[lo] * b[i + 1 - lo]
  ELSE SumProducts(a, b, i, lo, (lo + hi) \div 2)
         + SumProducts(a, b, i, (lo + hi) \div 2 + 1, hi)

\* the number whose digit i is the natural number c[i], of any size: its
\* units, plus ten times the number made of its tens
RECURSIVE BigOfColumns(_)
BigOfColumns(c) ==
  IF \A i \in 1 .. Len(c) : c[i] <= 9 THEN BigTrim(c)
  ELSE BigAdd(BigTrim(<<>> \o [i \in 1 .. Len(c) |-> c[i] % 10]),
              BigShift(BigOfColumns(<<>> \o [i \in 1 .. Len(c) |-> c[i] \div 10]), 1))

\* a * b: the columns of the long multiplication, then their carries
BigMul(a, b) ==
  IF a = <<>> \/ b = <<>> \/ b = <<0>> THEN <<>>
  ELSE IF b = <<1>> THEN a
  ELSE BigOfColumns(<<>> \o
         [i \in 1 .. Len(a) + Len(b) - 1 |->
            SumProducts(a, b, i, Max(1, i + 1 - Len(b)),
                        IF i < Len(a) THEN i ELSE Len(a))])

\* x^e, the exponent halved at each step
RECURSIVE BigPower(_, _)
BigPower(x, e) ==
  IF e = 0 THEN <<1>>
  ELSE IF e = 1 THEN x
  ELSE BigMul(BigPower(x, e - e \div 2), BigPower(x, e \div 2))

\* 2^k, the exponent taken 30 at a time: 2^30 is a machine integer
BigPow2(k) ==
  BigMul(BigPower(BigOfNat(2^30), k \div 30), BigOfNat(2^(k % 30)))

\* the digit c with c * T <= R < (c + 1) * T, for R < 10 * T
QuotientDigit(R, T) ==
  CHOOSE c \in 0 .. 9 :
    /\ ~BigLess(R, BigMul(T, <<c>>))
    /\ c = 9 \/ BigLess(R, BigMul(T, <<c + 1>>))

RECURSIVE DivFrom(_, _, _, _)
\* the digit c of weight 10^j is found
DivStep(R, B, j, acc, c) ==
  IF c = 0 THEN DivFrom(R, B, j - 1, <<0>> \o acc)
  ELSE DivFrom(BigSub(R, BigMul(BigShift(B, j), <<c>>)), B, j - 1,
               <<c>> \o acc)

\* long division: the digits of weight 10^j and less of R / B, for
\* R < B * 10^(j + 1); acc holds the digits above
DivFrom(R, B, j, acc) ==
  IF j < 0 THEN [q |-> BigTrim(acc), r |-> R]
  ELSE DivStep(R, B, j, acc, QuotientDigit(R, BigShift(B, j)))

----------------------------------------------------------------------------
(* StringToNumber of a JSON number literal: the binary64 nearest to the    *)
(* literal's value, ties to the even significand                           *)

\* the Number m * 2^q: Infinity when it exceeds the largest finite double
Finite(neg, m, q) ==
  IF m = <<>> THEN Zero(neg)
  ELSE IF q > MaxExponent THEN Infinity(neg)
  ELSE Num(neg, m, q)

\* round to nearest, ties to even: d is the quotient and remainder of the
\* division by B; down unless the remainder exceeds B / 2, or is B / 2 and
\* the quotient is odd; a significand that rounding up carries to 2^53 is
\* 2^52 one exponent up
RoundHalfEven(neg, d, B, q) ==
  IF ~ \/ BigLess(B, BigMul(d.r, <<2>>))
       \/ (BigMul(d.r, <<2>>) = B /\ d.q # <<>> /\ d.q[1] % 2 = 1)
    THEN Finite(neg, d.q, q)
  ELSE IF BigAdd(d.q, <<1>>) = BigPow2(MantissaBits)
    THEN Finite(neg, BigPow2(MantissaBits - 1), q + 1)
  ELSE Finite(neg, BigAdd(d.q, <<1>>), q)

\* the Number nearest to A / B * 2^q
Rounded(neg, A, B, q) ==
  RoundHalfEven(neg, DivFrom(A, B, Len(A) - Len(B), <<>>), B, q)

\* the Number nearest to A / B * 2^lo, in units of 2^q
InUnits(neg, A, B, lo, q) ==
  Rounded(neg, BigMul(A, BigPow2(Max(lo - q, 0))),
               BigMul(B, BigPow2(Max(q - lo, 0))), q)

\* the value is A / B * 2^lo with 2^j <= A / B < 2^(j + 1): 53 bits of
\* it, or as many as there are above 2^MinExponent; zero when it is below
\* half of 2^MinExponent
WithExponent(neg, A, B, lo, j) ==
  IF lo + j + 1 < MinExponent THEN Zero(neg)
  ELSE InUnits(neg, A, B, lo,
               Max(lo + j - (MantissaBits - 1), MinExponent))

\* the value is A / B * 2^lo, and A / B is 1 or more and below 2^6
Ratio(neg, A, B, lo) ==
  WithExponent(neg, A, B, lo,
               CHOOSE j \in 0 .. 5 :
                 /\ ~BigLess(A, BigMul(B, BigOfNat(2^j)))
                 /\ BigLess(A, BigMul(B, BigOfNat(2^(j + 1)))))

\* a power of two that is at most 10^(n - 1): 3.321928 < log2(10) < 3.321929
PowerBelow(n) ==
  IF n >= 1 THEN ((n - 1) * 3321928) \div 1000000
  ELSE ((n - 1) * 3321929) \div 1000000

\* decimal magnitudes n (10^(n-1) <= value < 10^n) from which every value
\* is Infinity (10^309 exceeds the largest double), and up to which every
\* value is zero (10^-324 is below 2^-1075, half the smallest subnormal)
InfinityMagnitude == 310
ZeroMagnitude == -324

\* the Number nearest to D * 10^E, D without leading zeros: the value is
\* N / M for N = D * 10^E and M = 1, or N = D and M = 10^-E, and with
\* lo = PowerBelow(Len(D) + E) it is N * 2^-lo / M or N / (M * 2^lo),
\* times 2^lo
NearestNumber(neg, D, E) ==
  IF D = <<>> THEN Zero(neg)
  ELSE IF Len(D) + E >= InfinityMagnitude THEN Infinity(neg)
  ELSE IF Len(D) + E <= ZeroMagnitude THEN Zero(neg)
  ELSE Ratio(neg,
             BigMul(BigShift(D, Max(E, 0)),
                    BigPow2(Max(-PowerBelow(Len(D) + E), 0))),
             BigMul(BigShift(<<1>>, Max(-E, 0)),
                    BigPow2(Max(PowerBelow(Len(D) + E), 0))),
             PowerBelow(Len(D) + E))

\* the number written by the digit characters ds, most significant first
BigOfDigits(ds) ==
  BigTrim(<<>> \o [i \in 1 .. Len(ds) |-> ds[Len(ds) + 1 - i] - 48])

\* an exponent's value is held at ExponentCap: the magnitude of a literal
\* with an exponent that large is beyond the two magnitudes above
ExponentCap == 1000000000

RECURSIVE SmallNat(_)
\* the value of at most nine digits, least significant first
SmallNat(a) == IF a = <<>> THEN 0 ELSE a[1] + 10 * SmallNat(Tail(a))

ExponentValue(ds) ==
  IF Len(BigOfDigits(ds)) > 9 THEN ExponentCap ELSE SmallNat(BigOfDigits(ds))

\* the Number of the literal with integer digits int, fraction digits frac
\* and exponent exp
StringToNumber(neg, int, frac, exp) ==
  NearestNumber(neg, BigOfDigits(int \o frac), exp - Len(frac))

----------------------------------------------------------------------------
(* Number::toString: the shortest decimal digits that read back as the     *)
(* same Number, the closest to it among those (the free-format algorithm   *)
(* of Steele & White and Burger & Dybvig, in exact arithmetic)             *)

\* the significand is 2^52 above the smallest exponent: the Number below is
\* half as far as the Number above
IsPowerOfTwo(v) == v.q > MinExponent /\ v.m = BigPow2(MantissaBits - 1)

\* R + Mp reaches S: the upper end of the interval is at or beyond S
ReachesHigh(R, Mp, S, even) ==
  IF even THEN ~BigLess(BigAdd(R, Mp), S) ELSE BigLess(S, BigAdd(R, Mp))

RECURSIVE Generate(_, _, _, _, _, _)
\* the digit d is produced, R remains: stop when the digits so far (R is
\* within Mm of zero), or with their last digit one higher (R + Mp reaches
\* S), lie inside the rounding interval; when both do, the last digit is the
\* nearer one, the even one on a tie
AfterDigit(d, R, S, Mp, Mm, even, acc) ==
  IF (IF even THEN ~BigLess(Mm, R) ELSE BigLess(R, Mm))
    THEN IF ~ReachesHigh(R, Mp, S, even) THEN Append(acc, d)
         ELSE IF BigLess(BigMul(R, <<2>>), S) THEN Append(acc, d)
         ELSE IF BigLess(S, BigMul(R, <<2>>)) THEN Append(acc, d + 1)
         ELSE Append(acc, IF d % 2 = 0 THEN d ELSE d + 1)
    ELSE IF ReachesHigh(R, Mp, S, even)
           THEN Append(acc, d + 1)
           ELSE Generate(R, S, Mp, Mm, even, Append(acc, d))

\* the next digit d of R / S: 10 * R = d * S + the new R
NextDigit(R10, S, Mp, Mm, even, acc, d) ==
  AfterDigit(d, BigSub(R10, BigMul(S, <<d>>)), S, Mp, Mm, even, acc)

\* the digits of R / S, which is below 1, with the half-widths Mp / S and
\* Mm / S of the rounding interval above and below it
Generate(R, S, Mp, Mm, even, acc) ==
  NextDigit(BigShift(R, 1), S, BigShift(Mp, 1), BigShift(Mm, 1), even, acc,
            QuotientDigit(BigShift(R, 1), S))

\* the n with 10^(n - 1) <= H / S < 10^n (the upper end H / S inside the
\* interval, even) or 10^(n - 1) < H / S <= 10^n (outside): H / S lies
\* strictly between 10^(k - 1) and 10^(k + 1) for k == Len(H) - Len(S), and
\* n is k when H / S is below 10^k, or at 10^k when that end is outside
DecimalExponent(H, S, k, even) ==
  IF (IF even THEN BigLess(BigShift(H, Max(-k, 0)), BigShift(S, Max(k, 0)))
      ELSE ~BigLess(BigShift(S, Max(k, 0)), BigShift(H, Max(-k, 0))))
    THEN k ELSE k + 1

\* the digits of R / S / 10^n
Scaled(R, S, Mp, Mm, n, even) ==
  [ds |-> Generate(BigShift(R, Max(-n, 0)), BigShift(S, Max(n, 0)),
                   BigShift(Mp, Max(-n, 0)), BigShift(Mm, Max(-n, 0)),
                   even, <<>>),
   n |-> n]

\* the value is R / S, its rounding interval reaches Mp / S up and Mm / S
\* down
FreeFormat(R, S, Mp, Mm, even) ==
  Scaled(R, S, Mp, Mm,
         DecimalExponent(BigAdd(R, Mp), S, Len(BigAdd(R, Mp)) - Len(S), even),
         even)

\* the digits ds and the exponent n of a finite non-zero Number m * 2^q, which
\* prints as 0.ds * 10^n: its value is R / S with R = 2 * m * 2^q and S = 2,
\* or R = 2 * m and S = 2 * 2^-q; the interval reaches one unit of R / S up
\* and down (the ends read back as this Number when m is even), and with
\* everything doubled, two units up when the Number below is nearer
ShortestDigits(v) ==
  FreeFormat(
    BigMul(BigMul(v.m, BigPow2(Max(v.q, 0))),
           IF IsPowerOfTwo(v) THEN <<4>> ELSE <<2>>),
    BigMul(BigPow2(Max(-v.q, 0)), IF IsPowerOfTwo(v) THEN <<4>> ELSE <<2>>),
    BigMul(BigPow2(Max(v.q, 0)), IF IsPowerOfTwo(v) THEN <<2>> ELSE <<1>>),
    BigPow2(Max(v.q, 0)),
    v.m[1] % 2 = 0)

\* the decimal digit characters of a natural number
RECURSIVE NatString(_)
NatString(n) ==
  IF n < 10 THEN <<48 + n>> ELSE Append(NatString(n \div 10), 48 + (n % 10))

DigitChars(ds) == <<>> \o [i \in 1 .. Len(ds) |-> 48 + ds[i]]

\* the exponent part e+x or e-x
ExponentString(e) ==
  <<101, IF e < 0 THEN 45 ELSE 43>> \o NatString(IF e < 0 THEN -e ELSE e)

\* Number::toString steps 6 to 10: k digits cs, the decimal point after
\* the n-th of them
DecimalString(cs, n) ==
  IF Len(cs) <= n /\ n <= 21 THEN cs \o [i \in 1 .. n - Len(cs) |-> 48]
  ELSE IF 0 < n /\ n <= 21
    THEN SubSeq(cs, 1, n) \o <<46>> \o SubSeq(cs, n + 1, Len(cs))
  ELSE IF -6 < n /\ n <= 0 THEN <<48, 46>> \o [i \in 1 .. -n |-> 48] \o cs
  ELSE IF Len(cs) = 1 THEN cs \o ExponentString(n - 1)
  ELSE <<cs[1], 46>> \o SubSeq(cs, 2, Len(cs)) \o ExponentString(n - 1)

S_Infinity == <<73, 110, 102, 105, 110, 105, 116, 121>>

ShortestString(r) == DecimalString(DigitChars(r.ds), r.n)

NumberToString(v) ==
  IF v.inf THEN (IF v.neg THEN <<45>> ELSE <<>>) \o S_Infinity
  ELSE IF v.m = <<>> THEN <<48>>
  ELSE (IF v.neg THEN <<45>> ELSE <<>>) \o ShortestString(ShortestDigits(v))

----------------------------------------------------------------------------
(* ToString: [threw, s], the TypeError it throws or the string it returns  *)

Returned(s) == [threw |-> FALSE, s |-> s]
Thrown == [threw |-> TRUE, s |-> <<>>]

RECURSIVE JSToString(_)
RECURSIVE JoinElements(_, _, _)

\* Array.prototype.join: the element a[i] is converted, r
JoinNext(a, i, acc, r) ==
  IF r.threw THEN Thrown
  ELSE JoinElements(a, i + 1, acc \o (IF i > 1 THEN <<44>> ELSE <<>>) \o r.s)

\* Array.prototype.join from element i on: null and undefined are "", any
\* other element its ToString
JoinElements(a, i, acc) ==
  IF i > Len(a) THEN Returned(acc)
  ELSE JoinNext(a, i, acc,
                IF a[i].t \in {"null", "undefined"} THEN Returned(<<>>)
                ELSE JSToString(a[i]))

\* ToString.  An array is joined (Array.prototype.toString).  An object
\* with an own property toString shadows Object.prototype.toString with a
\* value that is not callable, and valueOf gives no primitive either: a
\* TypeError; any other object is "[object Object]".
JSToString(v) ==
  CASE v.t = "undefined" -> Returned(S_undefined)
    [] v.t = "null" -> Returned(S_null)
    [] v.t = "bool" -> Returned(IF v.b THEN S_true ELSE S_false)
    [] v.t = "str" -> Returned(v.s)
    [] v.t = "num" -> Returned(NumberToString(v))
    [] v.t = "arr" -> JoinElements(v.a, 1, <<>>)
    [] OTHER -> IF \E i \in 1 .. Len(v.p) : v.p[i].k = S_toString THEN Thrown
                ELSE Returned(S_objectObject)

\* [[Get]] of a property name that no prototype defines ("text",
\* "completed"): the last member of that name of a parsed object, and
\* undefined on every other value
RECURSIVE LastMember(_, _)
LastMember(p, k) ==
  IF p = <<>> THEN Undefined
  ELSE IF p[Len(p)].k = k THEN p[Len(p)].v
  ELSE LastMember(SubSeq(p, 1, Len(p) - 1), k)

GetProp(v, k) == IF v.t = "obj" THEN LastMember(v.p, k) ELSE Undefined

----------------------------------------------------------------------------
(* JSON.stringify, for the array of {text, completed} literals that        *)
(* saveTasks builds                                                        *)

HexDigit(n) == IF n < 10 THEN 48 + n ELSE 87 + n

UnicodeEscape(c) ==
  <<BACKSLASH, 117, HexDigit(c \div 4096), HexDigit((c \div 256) % 16),
    HexDigit((c \div 16) % 16), HexDigit(c % 16)>>

IsHighSurrogate(c) == c >= 55296 /\ c <= 56319
IsLowSurrogate(c) == c >= 56320 /\ c <= 57343

\* an escape that leaves the quotation mark as it is
EscapeUnit_noQuote(c) ==
  CASE c = 8 -> <<BACKSLASH, 98>>
    [] c = 9 -> <<BACKSLASH, 116>>
    [] c = 10 -> <<BACKSLASH, 110>>
    [] c = 12 -> <<BACKSLASH, 102>>
    [] c = 13 -> <<BACKSLASH, 114>>
    [] c = BACKSLASH -> <<BACKSLASH, BACKSLASH>>
    [] OTHER -> IF c < 32 \/ (c >= 55296 /\ c <= 57343)
                  THEN UnicodeEscape(c)
                  ELSE <<c>>

\* the escape of one code unit that is not part of a surrogate pair
EscapeUnit(c) ==
  CASE c = 8 -> <<BACKSLASH, 98>>
    [] c = 9 -> <<BACKSLASH, 116>>
    [] c = 10 -> <<BACKSLASH, 110>>
    [] c = 12 -> <<BACKSLASH, 102>>
    [] c = 13 -> <<BACKSLASH, 114>>
    [] c = QUOTE -> <<BACKSLASH, QUOTE>>
    [] c = BACKSLASH -> <<BACKSLASH, BACKSLASH>>
    [] OTHER -> IF c < 32 \/ IsHighSurrogate(c) \/ IsLowSurrogate(c)
                  THEN UnicodeEscape(c)
                  ELSE <<c>>

RECURSIVE QuoteFrom(_, _)
QuoteFrom(s, i) ==
  IF i > Len(s) THEN <<>>
  ELSE IF IsHighSurrogate(s[i]) /\ i < Len(s) /\ IsLowSurrogate(s[i + 1])
    THEN <<s[i], s[i + 1]>> \o QuoteFrom(s, i + 2)
    ELSE EscapeUnit(s[i]) \o QuoteFrom(s, i + 1)

\* QuoteJSONString
QuoteJSONString(s) == <<QUOTE>> \o QuoteFrom(s, 1) \o <<QUOTE>>

\* one {text: ..., completed: ...} object, members in creation order
SerializeTask(task) ==
  <<123>> \o QuoteJSONString(S_text) \o <<58>> \o QuoteJSONString(task.text)
    \o <<44>> \o QuoteJSONString(S_completed) \o <<58>>
    \o (IF task.completed THEN S_true ELSE S_false) \o <<125>>

RECURSIVE SerializeElements(_)
SerializeElements(tasks) ==
  IF tasks = <<>> THEN <<>>
  ELSE IF Len(tasks) = 1 THEN SerializeTask(tasks[1])
  ELSE SerializeTask(Head(tasks)) \o <<44>> \o SerializeElements(Tail(tasks))

JSONstringify(tasks) == <<91>> \o SerializeElements(tasks) \o <<93>>

----------------------------------------------------------------------------
(* JSON.parse: a recursive-descent parser of the JSON grammar.  A parse    *)
(* result is [ok, v, i]: success, the value, the index after it.           *)

Fail == [ok |-> FALSE, v |-> Undefined, i |-> 0]
Ok(v, i) == [ok |-> TRUE, v |-> v, i |-> i]

IsDigit(c) == c >= 48 /\ c <= 57
IsHex(c) == IsDigit(c) \/ (c >= 97 /\ c <= 102) \/ (c >= 65 /\ c <= 70)
HexVal(c) == IF IsDigit(c) THEN c - 48 ELSE IF c >= 97 THEN c - 87 ELSE c - 55

\* JSON whitespace: tab, line feed, carriage return, space
RECURSIVE SkipWS(_, _)
SkipWS(s, i) ==
  IF i <= Len(s) /\ s[i] \in {9, 10, 13, 32} THEN SkipWS(s, i + 1) ELSE i

HasAt(s, i, lit) ==
  /\ i + Len(lit) - 1 <= Len(s)
  /\ \A k \in 1 .. Len(lit) : s[i + k - 1] = lit[k]

\* the characters of a string literal from index i on, up to its closing quote
RECURSIVE ParseChars(_, _, _)
ParseChars(s, i, acc) ==
  IF i > Len(s) THEN Fail
  ELSE IF s[i] = QUOTE THEN Ok(Str(acc), i + 1)
  ELSE IF s[i] < 32 THEN Fail
  ELSE IF s[i] # BACKSLASH THEN ParseChars(s, i + 1, Append(acc, s[i]))
  ELSE IF i + 1 > Len(s) THEN Fail
  ELSE LET e == s[i + 1]
       IN CASE e \in {QUOTE, BACKSLASH, 47} -> ParseChars(s, i + 2, Append(acc, e))
            [] e = 98 -> ParseChars(s, i + 2, Append(acc, 8))
            [] e = 102 -> ParseChars(s, i + 2, Append(acc, 12))
            [] e = 110 -> ParseChars(s, i + 2, Append(acc, 10))
            [] e = 114 -> ParseChars(s, i + 2, Append(acc, 13))
            [] e = 116 -> ParseChars(s, i + 2, Append(acc, 9))
            [] e = 117 ->
                 IF i + 5 <= Len(s) /\ \A k \in 2 .. 5 : IsHex(s[i + k])
                   THEN ParseChars(s, i + 6,
                          Append(acc, HexVal(s[i + 2]) * 4096 + HexVal(s[i + 3]) * 256
                                        + HexVal(s[i + 4]) * 16 + HexVal(s[i + 5])))
                   ELSE Fail
            [] OTHER -> Fail

ParseString(s, i) ==
  IF i <= Len(s) /\ s[i] = QUOTE THEN ParseChars(s, i + 1, <<>>) ELSE Fail

\* the index after the run of digits that starts at i
DigitsEnd(s, i) ==
  CHOOSE j \in i .. Len(s) + 1 :
    /\ j = Len(s) + 1 \/ ~IsDigit(s[j])
    /\ \A k \in i .. j - 1 : IsDigit(s[k])

\* a number whose sign is read: i1 is the index of its first digit, i2 the
\* index after its integer part, i3 after its fraction, i4 the index of the
\* first exponent digit and i5 the index after the number
NumberEnd(s, neg, i1, i2, i3, hasExp, i4, i5) ==
  IF i2 = i1 \/ (i3 > i2 /\ i3 = i2 + 1) \/ (hasExp /\ i5 = i4) THEN Fail
  ELSE Ok(StringToNumber(neg, SubSeq(s, i1, i2 - 1),
              IF i3 > i2 THEN SubSeq(s, i2 + 1, i3 - 1) ELSE <<>>,
              IF ~hasExp THEN 0
              ELSE IF s[i4 - 1] = 45
                THEN -ExponentValue(SubSeq(s, i4, i5 - 1))
                ELSE ExponentValue(SubSeq(s, i4, i5 - 1))), i5)

NumberExp(s, neg, i1, i2, i3, hasExp, i4) ==
  NumberEnd(s, neg, i1, i2, i3, hasExp, i4,
            IF hasExp THEN DigitsEnd(s, i4) ELSE i3)

NumberFrac(s, neg, i1, i2, i3) ==
  NumberExp(s, neg, i1, i2, i3,
            i3 <= Len(s) /\ s[i3] \in {101, 69},
            IF i3 + 1 <= Len(s) /\ s[i3 + 1] \in {43, 45} THEN i3 + 2 ELSE i3 + 1)

NumberInt(s, neg, i1, i2) ==
  NumberFrac(s, neg, i1, i2,
             IF i2 <= Len(s) /\ s[i2] = 46 THEN DigitsEnd(s, i2 + 1) ELSE i2)

NumberSign(s, neg, i1) ==
  NumberInt(s, neg, i1,
            IF i1 <= Len(s) /\ s[i1] = 48 THEN i1 + 1 ELSE DigitsEnd(s, i1))

ParseNumber(s, i) ==
  NumberSign(s, i <= Len(s) /\ s[i] = 45, IF i <= Len(s) /\ s[i] = 45 THEN i + 1 ELSE i)

RECURSIVE ParseValue(_, _)
RECURSIVE ParseElements(_, _, _)
RECURSIVE ParseMembers(_, _, _)

\* after an element: "," and more elements, or "]"
ElementSep(s, j, acc) ==
  IF j > Len(s) THEN Fail
  ELSE IF s[j] = 44 THEN ParseElements(s, j + 1, acc)
  ELSE IF s[j] = 93 THEN Ok(Arr(acc), j + 1)
  ELSE Fail

AfterElement(s, r, acc) ==
  IF ~r.ok THEN Fail ELSE ElementSep(s, SkipWS(s, r.i), Append(acc, r.v))

\* after "[" or ",": a value, then "," or "]"
ParseElements(s, i, acc) == AfterElement(s, ParseValue(s, SkipWS(s, i)), acc)

\* after a member: "," and more members, or "}"
MemberSep(s, j, acc) ==
  IF j > Len(s) THEN Fail
  ELSE IF s[j] = 44 THEN ParseMembers(s, j + 1, acc)
  ELSE IF s[j] = 125 THEN Ok(Obj(acc), j + 1)
  ELSE Fail

AfterMemberValue(s, key, r, acc) ==
  IF ~r.ok THEN Fail
  ELSE MemberSep(s, SkipWS(s, r.i), Append(acc, [k |-> key, v |-> r.v]))

AfterMemberName(s, key, c, acc) ==
  IF c > Len(s) \/ s[c] # 58 THEN Fail
  ELSE AfterMemberValue(s, key, ParseValue(s, SkipWS(s, c + 1)), acc)

AfterMemberString(s, k, acc) ==
  IF ~k.ok THEN Fail ELSE AfterMemberName(s, k.v.s, SkipWS(s, k.i), acc)

\* after "{" or ",": a string, ":", a value, then "," or "}"
ParseMembers(s, i, acc) == AfterMemberString(s, ParseString(s, SkipWS(s, i)), acc)

\* after "{" and white space: "}" or members
ParseObject(s, j) ==
  IF j <= Len(s) /\ s[j] = 125 THEN Ok(Obj(<<>>), j + 1)
  ELSE ParseMembers(s, j, <<>>)

\* after "[" and white space: "]" or elements
ParseArray(s, j) ==
  IF j <= Len(s) /\ s[j] = 93 THEN Ok(Arr(<<>>), j + 1)
  ELSE ParseElements(s, j, <<>>)

\* the value that starts at index i (white space already skipped)
ParseValue(s, i) ==
  IF i > Len(s) THEN Fail
  ELSE CASE s[i] = 123 -> ParseObject(s, SkipWS(s, i + 1))
         [] s[i] = 91 -> ParseArray(s, SkipWS(s, i + 1))
         [] s[i] = QUOTE -> ParseString(s, i)
         [] s[i] = 45 \/ IsDigit(s[i]) -> ParseNumber(s, i)
         [] HasAt(s, i, S_true) -> Ok(Bool(TRUE), i + 4)
         [] HasAt(s, i, S_false) -> Ok(Bool(FALSE), i + 5)
         [] HasAt(s, i, S_null) -> Ok(Null, i + 4)
         [] OTHER -> Fail

\* the whole text must be one value between white space
WholeText(text, r) ==
  IF r.ok /\ SkipWS(text, r.i) = Len(text) + 1
    THEN [ok |-> TRUE, v |-> r.v]
    ELSE [ok |-> FALSE, v |-> Undefined]

\* JSON.parse(text): [ok, v]; ~ok is the SyntaxError it throws
JSONparse(text) == WholeText(text, ParseValue(text, SkipWS(text, 1)))

----------------------------------------------------------------------------
(* The DOM: #taskList is the sequence of its <li> children.  An <li> is    *)
(* its child nodes and whether its classList contains "completed".         *)

\* the <button class="delete-btn"> of a row
DeleteBtn == [nodeName |-> "BUTTON", textContent |-> CrossMark]

\* the textContent setter, once its value is converted: a non-empty string
\* becomes one Text child, the empty string no child at all
Children(r) ==
  [threw |-> r.threw,
   nodes |-> IF r.s = <<>> THEN <<>>
             ELSE <<[nodeName |-> "#text", textContent |-> r.s]>>]

\* li.textContent = v: [threw, nodes], the TypeError of ToString or the
\* child nodes of the <li>; null and undefined become ""
SetTextContent(v) ==
  Children(IF v.t \in {"null", "undefined"} THEN Returned(<<>>)
           ELSE JSToString(v))

\* the <li> once its text is set: the marker, then the delete button
NewLi(c, completed) ==
  [threw |-> c.threw,
   li |-> [childNodes |-> c.nodes \o <<DeleteBtn>>,
           completed |-> IF completed.t = "undefined" THEN FALSE
                         ELSE Truthy(completed)]]

\* createTaskElement with the default completed = true
createTaskElement_defaultTrue(text, completed) ==
  [threw |-> SetTextContent(text).threw,
   li |-> [childNodes |-> SetTextContent(text).nodes \o <<DeleteBtn>>,
           completed |-> IF completed.t = "undefined" THEN TRUE
                         ELSE Truthy(completed)]]

\* createTaskElement(text, completed = false), without its listeners:
\* [threw, li], where threw is the TypeError of li.textContent = text (no
\* <li> is returned then)
createTaskElement(text, completed) == NewLi(SetTextContent(text), completed)

\* textContent of an element: the text of all its descendants
RECURSIVE ConcatAll(_)
ConcatAll(nodes) ==
  IF nodes = <<>> THEN <<>>
  ELSE Head(nodes).textContent \o ConcatAll(Tail(nodes))

\* a snapshot that reads li.textContent instead of li.firstChild.textContent
SnapshotAll_wholeRow(list) ==
  [i \in 1 .. Len(list) |->
     [text |-> ConcatAll(list[i].childNodes),
      completed |-> list[i].completed]]

\* the tasks array that saveTasks collects from "#taskList li"
SnapshotAll(list) ==
  [i \in 1 .. Len(list) |->
     [text |-> list[i].childNodes[1].textContent,
      completed |-> list[i].completed]]

\* a removal that drops the last element whatever the index
RemoveAt_last(seq, i) == SubSeq(seq, 1, Len(seq) - 1)

\* Element.remove() on the i-th child
RemoveAt(seq, i) == SubSeq(seq, 1, i - 1) \o SubSeq(seq, i + 1, Len(seq))

(* A handler runs on a world w: the view (list), the input value, the      *)
(* stored item (null or a string), the values it has written so far, the   *)
(* <li> it has detached (at most one), the event's stop-propagation flag   *)
(* and whether it has thrown.                                              *)
World(list, input, store) ==
  [list |-> list, input |-> input, store |-> store,
   writes |-> <<>>, detached |-> <<>>, stopped |-> FALSE, threw |-> FALSE]

\* localStorage.setItem("tasks", value)
SetItem(w, value) ==
  [w EXCEPT !.store = Str(value), !.writes = Append(w.writes, value)]

saveTasks(w) == SetItem(w, JSONstringify(SnapshotAll(w.list)))

\* an add without the return on an empty taskText
AddTrimmed_noGuard(w, taskText) ==
  saveTasks([w EXCEPT
    !.list = Append(w.list, createTaskElement(Str(taskText), Undefined).li),
    !.input = <<>>])

\* addTask once taskText is computed
AddTrimmed(w, taskText) ==
  IF taskText = <<>> THEN w
  ELSE saveTasks([w EXCEPT
         !.list = Append(w.list, createTaskElement(Str(taskText), Undefined).li),
         !.input = <<>>])

\* an add that persists before it appends the row and clears the input
addTask_saveFirst(w) ==
  IF Trim(w.input) = <<>> THEN w
  ELSE [saveTasks(w) EXCEPT
          !.list = Append(w.list,
                          createTaskElement(Str(Trim(w.input)), Undefined).li),
          !.input = <<>>]

addTask(w) == AddTrimmed(w, Trim(w.input))

RECURSIVE AppendSaved(_, _)

\* taskList.appendChild(li), unless createTaskElement has thrown
AppendCreated(list, c, rest) ==
  IF c.threw THEN [list |-> list, threw |-> TRUE]
  ELSE AppendSaved(Append(list, c.li), rest)

\* saved.forEach(...): rows are appended until an element is null, whose
\* property read throws a TypeError, or has a text whose conversion to a
\* string throws one
AppendSaved(list, saved) ==
  IF saved = <<>> THEN [list |-> list, threw |-> FALSE]
  ELSE IF Head(saved).t = "null" THEN [list |-> list, threw |-> TRUE]
  ELSE AppendCreated(list,
                     createTaskElement(GetProp(Head(saved), S_text),
                                       GetProp(Head(saved), S_completed)),
                     Tail(saved))

\* the world after forEach has appended the rows r.list, thrown or not
RowsLoaded(w, r) == [w EXCEPT !.list = r.list, !.threw = r.threw]

\* saved.forEach: a TypeError unless saved is an array
ForEachSaved(w, saved) ==
  IF saved.t # "arr" THEN [w EXCEPT !.threw = TRUE]
  ELSE RowsLoaded(w, AppendSaved(w.list, saved.a))

\* JSON.parse(...) || []: a SyntaxError, or the parsed value unless falsy
ParsedOrEmpty(w, parsed) ==
  IF ~parsed.ok THEN [w EXCEPT !.threw = TRUE]
  ELSE ForEachSaved(w, IF Truthy(parsed.v) THEN parsed.v ELSE Arr(<<>>))

\* a load that writes the rows it has built back to storage
loadTasks_resave(w) ==
  saveTasks(ParsedOrEmpty(w, JSONparse(JSToString(w.store).s)))

\* loadTasks: it throws when JSON.parse does, when the parsed value is
\* truthy and has no forEach method, on a null element, and on a text that
\* has no string conversion; it only reads
\* the stored item
loadTasks(w) == ParsedOrEmpty(w, JSONparse(JSToString(w.store).s))

\* a row listener that calls classList.add instead of classList.toggle
LiClick_add(w, i) ==
  saveTasks(IF i = 0
              THEN [w EXCEPT !.detached[1].completed = TRUE]
              ELSE [w EXCEPT !.list[i].completed = TRUE])

\* a row listener that also appends a check mark, U+2713, to the row's text
LiClick_markText(w, i) ==
  saveTasks(IF i = 0
    THEN [w EXCEPT !.detached[1].completed = ~w.detached[1].completed,
                   !.detached[1].childNodes[1].textContent
                      = w.detached[1].childNodes[1].textContent \o <<10003>>]
    ELSE [w EXCEPT !.list[i].completed = ~w.list[i].completed,
                   !.list[i].childNodes[1].textContent
                      = w.list[i].childNodes[1].textContent \o <<10003>>])

\* a row listener that toggles the marker of every row of the list
LiClick_all(w, i) ==
  saveTasks([w EXCEPT !.list =
    [j \in 1 .. Len(w.list) |->
       [w.list[j] EXCEPT !.completed = ~w.list[j].completed]]])

\* the click listener of the i-th <li>, or of the detached <li> when i = 0
LiClick(w, i) ==
  saveTasks(IF i = 0
              THEN [w EXCEPT !.detached[1].completed = ~w.detached[1].completed]
              ELSE [w EXCEPT !.list[i].completed = ~w.list[i].completed])

\* a delete listener that removes every row with the text of the clicked row
DeleteBtnClick_byText(w, i) ==
  LET Other(row) ==
        row.childNodes[1].textContent # w.list[i].childNodes[1].textContent
  IN saveTasks([w EXCEPT !.stopped = TRUE,
                         !.detached = <<w.list[i]>>,
                         !.list = SelectSeq(w.list, Other)])

\* a delete listener without e.stopPropagation()
DeleteBtnClick_noStop(w, i) ==
  saveTasks([w EXCEPT !.detached = <<w.list[i]>>,
                      !.list = RemoveAt(w.list, i)])

\* the click listener of the delete button of the i-th <li>
DeleteBtnClick(w, i) ==
  saveTasks([w EXCEPT !.stopped = TRUE,
                      !.detached = <<w.list[i]>>,
                      !.list = RemoveAt(w.list, i)])

\* a click whose target is the delete button of the i-th <li>: the button's
\* listener runs, then the event bubbles to the <li> (detached or not)
\* unless propagation was stopped
BubbleToLi(w, i) ==
  IF w.stopped THEN w ELSE LiClick(w, IF w.detached = <<>> THEN i ELSE 0)

DispatchDeleteClick(w, i) == BubbleToLi(DeleteBtnClick(w, i), i)

\* the click listener of #addBtn
AddBtnListener(w) == addTask(w)

\* a keypress listener that compares e.key with "enter"
KeypressListener_lowercase(w, key) ==
  IF key = <<101, 110, 116, 101, 114>> THEN addTask(w) ELSE w

\* the keypress listener of #taskInput
KeypressListener(w, key) == IF key = S_Enter THEN addTask(w) ELSE w

----------------------------------------------------------------------------
(* The state machine *)

\* values the user puts in the input field
Inputs ==
  {<<>>, <<32, 9>>, <<32, 97, 32>>, <<QUOTE, BACKSLASH>>, <<98, 32, 99>>}

\* keys pressed in the input field: "Enter", "a", "enter"
Keys == {S_Enter, <<97>>, <<101, 110, 116, 101, 114>>}

Event(kind, idx, key) ==
  [kind |-> kind, idx |-> idx, key |-> key,
   lastKind |-> ev.kind, lastIdx |-> ev.idx]

CodecIdle == [pc |-> "idle", tasks |-> <<>>, encoded |-> <<>>, decoded |-> <<>>]

\* the state an event leaves behind: the script's evaluation opens a
\* document at which DOMContentLoaded is still to be fired, the event
\* "load" is the DOMContentLoaded listener of line 6
Outcome(w, e, didThrow) ==
  /\ taskList' = w.list
  /\ taskInput' = w.input
  /\ storage' = w.store
  /\ writes' = w.writes
  /\ detached' = w.detached
  /\ threw' = didThrow
  /\ ev' = e
  /\ pre' = taskList
  /\ ready' = IF e.kind = "script" THEN FALSE
              ELSE IF e.kind = "load" THEN TRUE
              ELSE ready
  /\ UNCHANGED codec

\* script.js has been evaluated on the new document of a profile whose item
\* is store: the list and the input field are empty, the listeners of lines
\* 6 and 63-66 are registered, DOMContentLoaded is still to come
Opened(store) ==
  /\ taskList = <<>>
  /\ taskInput = <<>>
  /\ storage = store
  /\ writes = <<>>
  /\ detached = <<>>
  /\ threw = FALSE
  /\ ev = [kind |-> "script", idx |-> 0, key |-> <<>>,
           lastKind |-> "none", lastIdx |-> 0]
  /\ pre = <<>>
  /\ ready = FALSE

\* a fresh profile: the item "tasks" is absent
Init == Opened(Null) /\ codec = CodecIdle

Here == World(taskList, taskInput, storage)

\* the add handler is offered while it keeps the view within MaxRows; before
\* DOMContentLoaded, while loadTasks, which appends the rows of the item
\* the add writes to the rows on screen, will keep it there
CanAdd ==
  \/ Trim(taskInput) = <<>>
  \/ (IF ready THEN Len(taskList) + 1 ELSE 2 * (Len(taskList) + 1)) <= MaxRows

\* the user edits the input field
SetInput ==
  \E v \in Inputs :
    /\ v # taskInput
    /\ Outcome([Here EXCEPT !.input = v], Event("input", 0, <<>>), FALSE)

ClickAdd ==
  /\ CanAdd
  /\ Outcome(AddBtnListener(Here), Event("click-add", 0, <<>>), FALSE)

KeyPress ==
  \E key \in Keys :
    /\ key = S_Enter => CanAdd
    /\ Outcome(KeypressListener(Here, key), Event("keypress", 0, key), FALSE)

ClickRow ==
  \E i \in 1 .. Len(taskList) :
    Outcome(LiClick(Here, i), Event("toggle", i, <<>>), FALSE)

ClickDelete ==
  \E i \in 1 .. Len(taskList) :
    Outcome(DispatchDeleteClick(Here, i), Event("delete", i, <<>>), FALSE)

\* the page is opened again: script.js is evaluated on a new document
Reload == Outcome(World(<<>>, <<>>, storage), Event("script", 0, <<>>), FALSE)

\* the state after loadTasks has run, r
Loaded(r) == Outcome(r, Event("load", 0, <<>>), r.threw)

\* DOMContentLoaded is fired, once per document, in a task of its own: the
\* listeners of lines 63-66 may have handled events before it; loadTasks
\* appends to the rows they have left
DOMContentLoaded == ~ready /\ Loaded(loadTasks(Here))

Next ==
  \/ SetInput \/ ClickAdd \/ KeyPress \/ ClickRow \/ ClickDelete
  \/ Reload \/ DOMContentLoaded

Spec == Init /\ [][Next]_vars

----------------------------------------------------------------------------
(* The page opened on an item "tasks" that other code of the same origin,  *)
(* or an earlier version of the page, has left in localStorage             *)

StoredStrings ==
  {
    \* the empty string
    <<>>,
    \* {
    <<123>>,
    \* null
    <<110, 117, 108, 108>>,
    \* 0
    <<48>>,
    \* 5
    <<53>>,
    \* "ab"
    <<34, 97, 98, 34>>,
    \* {"a":1}
    <<123, 34, 97, 34, 58, 49, 125>>,
    \* []
    <<91, 93>>,
    \* [null]
    <<91, 110, 117, 108, 108, 93>>,
    \* [1]
    <<91, 49, 93>>,
    \* [{"text":"a","completed":false},null]
    <<91, 123, 34, 116, 101, 120, 116, 34, 58, 34, 97, 34, 44, 34, 99, 111, 109, 112, 108, 101, 116, 101, 100, 34, 58, 102, 97, 108, 115, 101, 125, 44, 110, 117, 108, 108, 93>>,
    \* [{"text":"","completed":true}]
    <<91, 123, 34, 116, 101, 120, 116, 34, 58, 34, 34, 44, 34, 99, 111, 109, 112, 108, 101, 116, 101, 100, 34, 58, 116, 114, 117, 101, 125, 93>>,
    \* [{"text":"a"}]
    <<91, 123, 34, 116, 101, 120, 116, 34, 58, 34, 97, 34, 125, 93>>,
    \* [{"text":5,"completed":1}]
    <<91, 123, 34, 116, 101, 120, 116, 34, 58, 53, 44, 34, 99, 111, 109, 112, 108, 101, 116, 101, 100, 34, 58, 49, 125, 93>>,
    \* 1e-400
    <<49, 101, 45, 52, 48, 48>>,
    \* [{"text":1e21,"completed":1e-400}]
    <<91, 123, 34, 116, 101, 120, 116, 34, 58, 49, 101, 50, 49, 44, 34, 99, 111, 109, 112, 108, 101, 116, 101, 100, 34, 58, 49, 101, 45, 52, 48, 48, 125, 93>>,
    \* [{"text":{"toString":1},"completed":false}]
    <<91, 123, 34, 116, 101, 120, 116, 34, 58, 123, 34, 116, 111, 83, 116, 114, 105, 110, 103, 34, 58, 49, 125, 44, 34, 99, 111, 109, 112, 108, 101, 116, 101, 100, 34, 58, 102, 97, 108, 115, 101, 125, 93>>,
    \* [{"text":"a","completed":false}
    <<91, 123, 34, 116, 101, 120, 116, 34, 58, 34, 97, 34, 44, 34, 99, 111, 109, 112, 108, 101, 116, 101, 100, 34, 58, 102, 97, 108, 115, 101, 125>>,
    \*  [ { "text" : "a\u0062" , "completed" : true } ] 
    <<32, 91, 32, 123, 32, 34, 116, 101, 120, 116, 34, 32, 58, 32, 34, 97, 92, 117, 48, 48, 54, 50, 34, 32, 44, 32, 34, 99, 111, 109, 112, 108, 101, 116, 101, 100, 34, 32, 58, 32, 116, 114, 117, 101, 32, 125, 32, 93, 32>>,
    \* [{"text":"a","completed":true},{"text":"b c","completed":false}]
    <<91, 123, 34, 116, 101, 120, 116, 34, 58, 34, 97, 34, 44, 34, 99, 111, 109, 112, 108, 101, 116, 101, 100, 34, 58, 116, 114, 117, 101, 125, 44, 123, 34, 116, 101, 120, 116, 34, 58, 34, 98, 32, 99, 34, 44, 34, 99, 111, 109, 112, 108, 101, 116, 101, 100, 34, 58, 102, 97, 108, 115, 101, 125, 93>>
  }

StoredItems == {Null} \cup {Str(x) : x \in StoredStrings}

InitStored == (\E store \in StoredItems : Opened(store)) /\ codec = CodecIdle

SpecStored == InitStored /\ [][Next]_vars

\* a profile whose item "tasks" is absent or holds the empty list "[]"
InitEmpty ==
  (\E store \in {Null, Str(<<91, 93>>)} : Opened(store)) /\ codec = CodecIdle

SpecEmpty == InitEmpty /\ [][Next]_vars

----------------------------------------------------------------------------
(* The codec on its own: a list of Task records is encoded as saveTasks    *)
(* encodes it and decoded as loadTasks reads it                            *)

\* longest task list given to the codec
MaxCodecLen == 2

\* "", "a", a quote, a backslash, a line feed, U+0001, a lone high
\* surrogate, a surrogate pair, the cross mark, " a"
CodecTexts ==
  {<<>>, <<97>>, <<QUOTE>>, <<BACKSLASH>>, <<10>>, <<1>>, <<55357>>,
   <<55357, 56832>>, CrossMark, <<32, 97>>}

CodecTasks == [text : CodecTexts, completed : BOOLEAN]

CodecLists == UNION {[1 .. n -> CodecTasks] : n \in 0 .. MaxCodecLen}

\* a parsed element is a Task record: an object with a string text and a
\* boolean completed
IsTaskObject(v) ==
  /\ v.t = "obj"
  /\ GetProp(v, S_text).t = "str"
  /\ GetProp(v, S_completed).t = "bool"

TasksOfSaved(saved) ==
  IF saved.t = "arr" /\ \A i \in 1 .. Len(saved.a) : IsTaskObject(saved.a[i])
    THEN [ok |-> TRUE,
          tasks |-> [i \in 1 .. Len(saved.a) |->
                       [text |-> GetProp(saved.a[i], S_text).s,
                        completed |-> GetProp(saved.a[i], S_completed).b]]]
    ELSE [ok |-> FALSE, tasks |-> <<>>]

TasksOfParsed(parsed) ==
  IF ~parsed.ok THEN [ok |-> FALSE, tasks |-> <<>>]
  ELSE TasksOfSaved(IF Truthy(parsed.v) THEN parsed.v ELSE Arr(<<>>))

\* what loadTasks reads from a stored item: the parsed array (or [] for a
\* falsy value) as Task records; ~ok when JSON.parse throws or the value is
\* not an array of objects with a string text and a boolean completed
DecodeTasks(store) == TasksOfParsed(JSONparse(JSToString(store).s))

InitCodec ==
  /\ Opened(Null)
  /\ \E L \in CodecLists :
       codec = [pc |-> "start", tasks |-> L, encoded |-> <<>>, decoded |-> <<>>]

Encode ==
  /\ codec.pc = "start"
  /\ codec' = [codec EXCEPT !.pc = "encoded",
                            !.encoded = JSONstringify(codec.tasks)]
  /\ UNCHANGED <<taskInput, taskList, storage, ev, pre, writes, detached, threw,
                 ready>>

Decode ==
  /\ codec.pc = "encoded"
  /\ codec' = [codec EXCEPT !.pc = "decoded",
                            !.decoded = DecodeTasks(Str(codec.encoded))]
  /\ UNCHANGED <<taskInput, taskList, storage, ev, pre, writes, detached, threw,
                 ready>>

NextCodec == Encode \/ Decode

SpecCodec == InitCodec /\ [][NextCodec]_vars

----------------------------------------------------------------------------
(* What a row shows: the text of its own Text children and its marker      *)

RECURSIVE OwnText(_)
OwnText(nodes) ==
  IF nodes = <<>> THEN <<>>
  ELSE (IF Head(nodes).nodeName = "#text" THEN Head(nodes).textContent ELSE <<>>)
         \o OwnText(Tail(nodes))

\* the (text, completed) pairs of the rows on screen, in order
RowView(list) ==
  [i \in 1 .. Len(list) |->
     [text |-> OwnText(list[i].childNodes), completed |-> list[i].completed]]

\* the stored item decodes to exactly the task list tasks
DecodesTo(store, tasks) ==
  DecodeTasks(store).ok /\ DecodeTasks(store).tasks = tasks

\* the event is an add intent: the add button or the Enter key
AddIntent(e) ==
  e.kind = "click-add" \/ (e.kind = "keypress" /\ e.key = S_Enter)

\* seq without its i-th element
Without(seq, i) ==
  [j \in 1 .. Len(seq) - 1 |-> IF j < i THEN seq[j] ELSE seq[j + 1]]

\* the last event was an add, toggle or delete that changed the view
Mutated ==
  ev.kind \in {"click-add", "keypress", "toggle", "delete"} /\ taskList # pre

----------------------------------------------------------------------------
(* Claims *)

\* C1: once a mutation has completed, the item "tasks" decodes to exactly
\* the (text, completed) pairs of the rows on screen, in the same order: it
\* does when an add, toggle or delete has changed the view, and every
\* further intent or edit on the page keeps it so.
C1_StoredReflectsView ==
  /\ [](Mutated => DecodesTo(storage, RowView(taskList)))
  /\ [][(/\ ev'.kind \notin {"script", "load"}
          /\ DecodesTo(storage, RowView(taskList)))
          => DecodesTo(storage', RowView(taskList'))]_vars

\* C1 witness: a task was added and then deleted; the item is "[]".
C1_Witness ==
  /\ ev.kind = "delete" /\ ev.lastKind = "click-add"
  /\ Len(pre) = 1 /\ taskList = <<>>
  /\ storage = Str(<<91, 93>>)

\* C2: an add intent on an input whose trimmed form s is not empty appends
\* exactly one row, with text s and not completed, leaves the rows before it
\* as they were, and the item written by the intent holds the new row.
C2_AddAppendsOneRow ==
  [][(AddIntent(ev') /\ ~IsBlank(taskInput)) =>
       /\ Len(taskList') = Len(taskList) + 1
       /\ SubSeq(taskList', 1, Len(taskList)) = taskList
       /\ RowView(taskList')[Len(taskList')]
            = [text |-> Trim(taskInput), completed |-> FALSE]
       /\ Len(writes') = 1
       /\ DecodesTo(storage', RowView(taskList'))]_vars

\* C2 witness: a second row was added behind a first one by the add button.
C2_Witness ==
  /\ ev.kind = "click-add" /\ Len(pre) = 1 /\ Len(taskList) = 2
  /\ taskList[1] = pre[1] /\ ~taskList[2].completed
  /\ storage.t = "str" /\ Len(DecodeTasks(storage).tasks) = 2

\* C3: an add intent on an empty or whitespace-only input adds no row,
\* changes no row and writes nothing to storage.
C3_BlankAddIsNoOp ==
  [][(AddIntent(ev') /\ IsBlank(taskInput)) =>
       /\ taskList' = taskList
       /\ storage' = storage
       /\ writes' = <<>>]_vars

\* C3 witness: the add button was clicked on a whitespace-only input over a
\* non-empty list, and nothing was written.
C3_Witness ==
  /\ ev.kind = "click-add" /\ taskInput # <<>> /\ IsBlank(taskInput)
  /\ taskList # <<>> /\ taskList = pre /\ writes = <<>>

\* C4: startup does not fail, and the view it leaves has the texts, the
\* completed flags and the order of the view at the moment of the last
\* mutation, which is the view the item "tasks" holds (C1).
C4_ReloadRebuildsView ==
  [][ev'.kind = "load" =>
       (~threw' /\ DecodesTo(storage, RowView(taskList')))]_vars

\* C5: when the item is absent or corrupt at startup, loading treats it as
\* an empty task list: the load does not fail and the view has no rows.
C5_CorruptLoadsAsEmpty ==
  (ev.kind = "load" /\ (storage.t = "null" \/ ~JSONparse(storage.s).ok))
    => (~threw /\ taskList = <<>>)

\* C6: a delete intent on row i removes exactly that row: the other rows
\* keep their place among themselves, their text and their flag, and the
\* item written by the intent holds the shortened list.
C6_DeleteRemovesExactlyRow ==
  [][ev'.kind = "delete" =>
       /\ Len(taskList') = Len(taskList) - 1
       /\ taskList' = Without(taskList, ev'.idx)
       /\ DecodesTo(storage', RowView(Without(taskList, ev'.idx)))]_vars

\* C6 witness: the first of two different rows was deleted; the second one
\* is what remains.
C6_Witness ==
  /\ ev.kind = "delete" /\ ev.idx = 1
  /\ Len(pre) = 2 /\ pre[1] # pre[2] /\ taskList = <<pre[2]>>

\* C7: a click on a row's delete control does not run the row's toggle
\* listener: the removed row still has the flag it had before the click,
\* exactly one value was written, and no written value shows the row.
C7_DeleteNeverToggles ==
  ev.kind = "delete" =>
    /\ detached = <<pre[ev.idx]>>
    /\ Len(writes) = 1
    /\ \A k \in 1 .. Len(writes) :
         DecodesTo(Str(writes[k]), RowView(Without(pre, ev.idx)))

\* C7 witness: a completed row, the second of two, was deleted.
C7_Witness ==
  /\ ev.kind = "delete" /\ ev.idx = 2 /\ Len(pre) = 2
  /\ pre[2].completed /\ detached # <<>> /\ detached[1].completed
  /\ Len(writes) = 1

\* C8: two toggles of the same row in succession return it to its original
\* completed state, and each writes its own snapshot: the first shows the
\* row with the flipped flag, the second with the original flag.
C8_ToggleTwiceRestores ==
  [][(ev.kind = "toggle" /\ ev'.kind = "toggle" /\ ev'.idx = ev.idx) =>
       /\ taskList[ev.idx].completed = ~pre[ev.idx].completed
       /\ RowView(taskList')[ev.idx] = RowView(pre)[ev.idx]
       /\ Len(writes) = 1 /\ Len(writes') = 1
       /\ DecodeTasks(storage).ok
       /\ DecodeTasks(storage).tasks[ev.idx]
            = [RowView(pre)[ev.idx] EXCEPT !.completed = ~pre[ev.idx].completed]
       /\ DecodeTasks(storage').ok
       /\ DecodeTasks(storage').tasks[ev.idx] = RowView(pre)[ev.idx]]_vars

\* C8 witness: the same row of a two-row list was toggled twice in a row.
C8_Witness ==
  /\ ev.kind = "toggle" /\ ev.lastKind = "toggle" /\ ev.lastIdx = ev.idx
  /\ Len(taskList) = 2 /\ Len(writes) = 1
  /\ taskList[ev.idx].completed = ~pre[ev.idx].completed

\* C9: decoding the encoding of a list of Task records gives the list back:
\* the same length, order, texts and completed flags.
C9_RoundTrip ==
  codec.pc = "decoded" =>
    (codec.decoded.ok /\ codec.decoded.tasks = codec.tasks)

\* C9 witness: a two-task list whose first text is a quotation mark and
\* whose second task is completed has been encoded and decoded.
C9_Witness ==
  /\ codec.pc = "decoded" /\ Len(codec.tasks) = 2
  /\ codec.tasks[1].text = <<QUOTE>> /\ codec.tasks[2].completed
  /\ Len(codec.decoded.tasks) = 2

\* C10: Enter in the input field leaves the view, the input value and the
\* item as the add button's listener would; any other key leaves the list
\* and the item unchanged.
C10_EnterEqualsAddButton ==
  [][ev'.kind = "keypress" =>
       IF ev'.key = S_Enter
         THEN /\ taskList' = AddBtnListener(Here).list
              /\ taskInput' = AddBtnListener(Here).input
              /\ storage' = AddBtnListener(Here).store
         ELSE taskList' = taskList /\ storage' = storage]_vars

\* C10 witness: Enter was pressed on a non-blank input and a row was added.
C10_Witness ==
  /\ ev.kind = "keypress" /\ ev.key = S_Enter
  /\ Len(taskList) = Len(pre) + 1 /\ taskInput = <<>> /\ Len(writes) = 1

\* C11: a toggle intent on row i flips the completed flag of row i only: the
\* number and order of rows, the text of row i and every other row are
\* unchanged, and the item written by the intent shows the new flag.
C11_ToggleFlipsOnlyThatRow ==
  [][ev'.kind = "toggle" =>
       /\ Len(taskList') = Len(taskList)
       /\ \A j \in 1 .. Len(taskList) :
            taskList'[j] =
              IF j = ev'.idx
                THEN [taskList[j] EXCEPT !.completed = ~taskList[j].completed]
                ELSE taskList[j]
       /\ Len(writes') = 1
       /\ DecodesTo(storage', RowView(taskList'))
       /\ DecodeTasks(storage').tasks[ev'.idx].completed
            = ~taskList[ev'.idx].completed]_vars

\* C11 witness: the second of two rows was toggled to completed right after
\* it was added; the first row is as it was.
C11_Witness ==
  /\ ev.kind = "toggle" /\ ev.idx = 2 /\ ev.lastKind # "toggle"
  /\ Len(taskList) = 2 /\ taskList[1] = pre[1]
  /\ taskList[2].completed /\ ~pre[2].completed

\* the texts of the tasks the stored item holds (none when it is absent)
StoredTexts(store) ==
  [i \in 1 .. Len(DecodeTasks(store).tasks) |-> DecodeTasks(store).tasks[i].text]

\* C12: starting from absent or empty storage, no row on screen and no task
\* of the stored item has an empty or whitespace-only text.
C12_NoBlankText ==
  /\ \A i \in 1 .. Len(taskList) : ~IsBlank(RowView(taskList)[i].text)
  /\ DecodeTasks(storage).ok
  /\ \A i \in 1 .. Len(StoredTexts(storage)) : ~IsBlank(StoredTexts(storage)[i])

\* C12 witness: the add button was clicked on a whitespace-only input while
\* two rows are on screen and two tasks are stored, all with their texts.
C12_Witness ==
  /\ ev.kind = "click-add" /\ taskInput # <<>> /\ IsBlank(taskInput)
  /\ Len(taskList) = 2 /\ Len(StoredTexts(storage)) = 2
  /\ \A i \in 1 .. 2 : RowView(taskList)[i].text = StoredTexts(storage)[i]

\* the texts of the rows on screen, in order
Texts(list) == [i \in 1 .. Len(list) |-> RowView(list)[i].text]

\* C13: a row's text never changes: a step keeps the text of every row that
\* exists before and after it (a delete drops one text, a new document has
\* no row yet, startup keeps the texts it finds and adds the texts the item
\* holds, any other step keeps the texts it found, in place), and every value
\* written to storage during the step holds exactly the texts of the rows on
\* screen.
C13_TextImmutable ==
  [][/\ IF ev'.kind = "delete"
          THEN Texts(taskList') = Without(Texts(taskList), ev'.idx)
        ELSE IF ev'.kind = "script" THEN taskList' = <<>>
        ELSE IF ev'.kind = "load"
          THEN Texts(taskList') = Texts(taskList) \o StoredTexts(storage)
        ELSE /\ Len(taskList') >= Len(taskList)
             /\ SubSeq(Texts(taskList'), 1, Len(taskList)) = Texts(taskList)
     /\ \A k \in 1 .. Len(writes') :
          /\ DecodeTasks(Str(writes'[k])).ok
          /\ StoredTexts(Str(writes'[k])) = Texts(taskList')]_vars

\* C13 witness: of two rows the second was toggled, then the first deleted:
\* the row that remains has the text it had, on screen and in storage.
C13_Witness ==
  /\ ev.kind = "delete" /\ ev.idx = 1 /\ ev.lastKind = "toggle" /\ ev.lastIdx = 2
  /\ Len(pre) = 2 /\ Len(taskList) = 1
  /\ Texts(taskList)[1] = Texts(pre)[2] /\ Texts(pre)[1] # Texts(pre)[2]
  /\ Len(writes) = 1 /\ StoredTexts(storage) = Texts(taskList)

\* row i shares its text with another row of the list
SameTextElsewhere(list, i) ==
  \E j \in 1 .. Len(list) : j # i /\ Texts(list)[j] = Texts(list)[i]

\* C14: tasks are identified by position: adding a text that is already in
\* the list appends a separate row, and a toggle or delete on one of several
\* rows with the same text changes the row at the clicked position only, on
\* screen and in the stored item.
C14_IdentityIsPosition ==
  [][/\ (/\ AddIntent(ev') /\ ~IsBlank(taskInput)
         /\ \E j \in 1 .. Len(taskList) : Texts(taskList)[j] = Trim(taskInput))
          => /\ Len(taskList') = Len(taskList) + 1
             /\ SubSeq(taskList', 1, Len(taskList)) = taskList
             /\ Texts(taskList')[Len(taskList')] = Trim(taskInput)
             /\ DecodesTo(storage', RowView(taskList'))
     /\ (ev'.kind = "toggle" /\ SameTextElsewhere(taskList, ev'.idx))
          => /\ Len(taskList') = Len(taskList)
             /\ \A j \in 1 .. Len(taskList) :
                  j # ev'.idx => taskList'[j] = taskList[j]
             /\ taskList'[ev'.idx].completed = ~taskList[ev'.idx].completed
             /\ DecodesTo(storage', RowView(taskList'))
     /\ (ev'.kind = "delete" /\ SameTextElsewhere(taskList, ev'.idx))
          => /\ taskList' = Without(taskList, ev'.idx)
             /\ DecodesTo(storage', RowView(Without(taskList, ev'.idx)))]_vars

\* C14 witness: of two rows with the same text and different flags, the
\* second was deleted and the first is what remains.
C14_Witness ==
  /\ ev.kind = "delete" /\ ev.idx = 2 /\ Len(pre) = 2
  /\ Texts(pre)[1] = Texts(pre)[2] /\ pre[1].completed # pre[2].completed
  /\ taskList = <<pre[1]>>

\* C15: an add intent whose trimmed input is non-empty leaves the input
\* field empty and persists after the append: the one value it writes
\* decodes to the rows on screen, the new row (trimmed text, not completed)
\* last.
C15_AddClearsInputThenPersists ==
  [][(AddIntent(ev') /\ ~IsBlank(taskInput)) =>
       /\ taskInput' = <<>>
       /\ Len(taskList') = Len(taskList) + 1
       /\ Len(writes') = 1
       /\ storage' = Str(writes'[1])
       /\ DecodesTo(Str(writes'[1]), RowView(taskList'))
       /\ DecodeTasks(Str(writes'[1])).tasks[Len(taskList')]
            = [text |-> Trim(taskInput), completed |-> FALSE]]_vars

\* C15 witness: Enter on " a " with one row on screen: the input is empty,
\* and the value written holds two tasks, the second with text "a".
C15_Witness ==
  /\ ev.kind = "keypress" /\ ev.key = S_Enter
  /\ Len(pre) = 1 /\ Len(taskList) = 2 /\ taskInput = <<>>
  /\ Len(writes) = 1 /\ Len(StoredTexts(Str(writes[1]))) = 2
  /\ StoredTexts(Str(writes[1]))[2] = <<97>>

\* C16: a load that succeeds writes nothing, so the item "tasks" after
\* startup is the item found before it; and every step that is not an add,
\* toggle or delete changing the view (a load, an edit of the input field,
\* a key other than Enter, a blank add) leaves the item as it is.
C16_StartupNeverWrites ==
  /\ storage \in StoredItems /\ writes = <<>>
  /\ [][((ev'.kind = "load" /\ ~threw') \/ taskList' = taskList)
          => (storage' = storage /\ writes' = <<>>)]_vars

\* C16 witness: the page opened on the item written with spaces and a
\* \u escape, the input field was edited, the page was reloaded: the item
\* still starts with the space it had, and the row is on screen.
C16_Witness ==
  /\ ev.kind = "load" /\ ev.lastKind = "input" /\ ~threw /\ writes = <<>>
  /\ storage.t = "str" /\ Len(storage.s) > 0 /\ storage.s[1] = 32
  /\ Len(taskList) = 1 /\ taskList[1].completed

\* C17: after startup from a stored list of task records (objects with a
\* non-empty string text and a boolean completed), the snapshot that
\* saveTasks takes of the rows on screen is the stored list.
C17_LoadThenSnapshotIsIdentity ==
  (/\ ev.kind = "load" /\ ~threw /\ DecodeTasks(storage).ok
   /\ \A i \in 1 .. Len(DecodeTasks(storage).tasks) :
        DecodeTasks(storage).tasks[i].text # <<>>)
    => SnapshotAll(taskList) = DecodeTasks(storage).tasks

====
